---------------------------- MODULE Spec2Model ----------------------------
(***************************************************************************)
(* The aircraft preset loader (AircraftPresets::update) as a state machine. *)
(*                                                                         *)
(* One call of update is one step of the model.  Between two calls the     *)
(* simulator may change the variables the loader reads (the request LVAR,  *)
(* SIM ON GROUND, the aircraft-is-ready flag) and the module may be shut   *)
(* down or initialised.  A call takes two inputs: the frame's delta time   *)
(* and the number execute_calculator_code returns for the first script the *)
(* call evaluates (the return value of an action script is never read).    *)
(*                                                                         *)
(* Time is counted in milliseconds: the input dtMs is pData->dt (seconds)  *)
(* in thousandths, so that pData->dt * 1000 is dtMs.                       *)
(* Script results are counted in halves of the comparison tolerance:       *)
(* 1 is a value that is not zero and still approximately zero.             *)
(***************************************************************************)
EXTENDS Integers, Sequences, FiniteSets

VARIABLES
  isInitialized,              \* _isInitialized
  aircraftIsReady,            \* msfsHandler.getAircraftIsReadyVar()
  loadAircraftPresetRequest,  \* the request LVAR (AUTO_READ_WRITE)
  simOnGround,                \* SIM ON GROUND
  progressAircraftPreset,     \* fraction written, as <<numerator, denominator>>
  progressAircraftPresetId,   \* id of the step in focus
  loadingIsActive,
  currentProcedureID,
  currentProcedure,           \* the bound procedure (a sequence of steps)
  currentLoadingTime,
  currentDelay,
  currentStep,
  op,                         \* history: the operation that made this state
  last,                       \* history: what the last update call did
  run,                        \* history: what the current run has done so far
  polls                       \* history: unsatisfied condition results of the run

vars == <<isInitialized, aircraftIsReady, loadAircraftPresetRequest, simOnGround,
          progressAircraftPreset, progressAircraftPresetId, loadingIsActive,
          currentProcedureID, currentProcedure, currentLoadingTime, currentDelay,
          currentStep, op, last, run, polls>>

progVars == <<loadAircraftPresetRequest, progressAircraftPreset,
              progressAircraftPresetId, loadingIsActive, currentProcedureID,
              currentProcedure, currentLoadingTime, currentDelay, currentStep>>

-----------------------------------------------------------------------------
(* Bounds of the model *)

\* A call that would carry currentLoadingTime past MaxTime is not taken.
MaxTime == 500

\* In LiveSpec a run sees at most MaxPolls condition results that are
\* approximately zero ("every predicate eventually evaluates non-zero").
MaxPolls == 2

-----------------------------------------------------------------------------
(* Inputs *)

\* delta times of a frame, in ms
DtChoices == {0, 50, 100}

\* script results: 0, non-zero within the tolerance, clearly non-zero
FValues == {0, 1, 4}

\* values the simulator may put into the request LVAR; 4 names no procedure
RequestValues == {-1, 0, 1, 2, 3, 4}

-----------------------------------------------------------------------------
(* ProcedureStep, Procedure, the repository *)

Step(i, c, chk, d) ==
  [id |-> i, isConditional |-> c, hasExpectedStateCheck |-> chk, delayAfter |-> d]

\* 1: the empty procedure.  2: three actions, delays 100, 200, 0, no checks.
\* 3: a condition polled every 100 ms, an action with an expected-state
\*    check, an action without one.
Procedures ==
  [ p \in {1, 2, 3} |->
      CASE p = 1 -> << >>
        [] p = 2 -> << Step(21, FALSE, FALSE, 100),
                       Step(22, FALSE, FALSE, 200),
                       Step(23, FALSE, FALSE, 0) >>
        [] p = 3 -> << Step(31, TRUE, FALSE, 100),
                       Step(32, FALSE, TRUE, 100),
                       Step(33, FALSE, FALSE, 50) >> ]

NoProcedure == << "nullopt" >>

\* presetProcedures.getProcedure(id): the procedure, or an empty optional
getProcedure(id) ==
  IF id \in DOMAIN Procedures THEN Procedures[id] ELSE NoProcedure

has_value(p) == p # NoProcedure

\* the tolerance of helper::Math::almostEqual, in the unit of FValues
Epsilon == 2

Abs(x) == IF x < 0 THEN -x ELSE x

almostEqual(a, b) == Abs(a - b) < Epsilon

-----------------------------------------------------------------------------
(* The tests of update, one operator per condition of the code *)

\* has request to load a preset been received?
RequestReceived(req) == req > 0

\* mutant: the procedure counts as finished one step early
ProcedureDoneEarly(step, proc) == step + 1 >= Len(proc)

\* all procedure steps are done
ProcedureDone(step, proc) == step >= Len(proc)

\* mutant: the run timer is never advanced
AdvanceTimeLost(t, dtMs) == t

\* update run timer
AdvanceTime(t, dtMs) == t + dtMs

\* mutant: the delay ends when the timer reaches it
InDelayStrict(t, delay) == t < delay

\* we are in a delay and have to wait
InDelay(t, delay) == t <= delay

\* mutant: the next delay forgets the step's delayAfter
NextDelayWithoutDelayAfter(t, step) == t

\* calculate next delay
NextDelay(t, step) == t + step.delayAfter

\* mutant: the negation of the almostEqual test is missing
SatisfiedInverted(fvalue) == almostEqual(0, fvalue)

\* the result of a condition or of an expected-state check counts as "true"
Satisfied(fvalue) == ~almostEqual(0, fvalue)

\* the expected-state check is made
HasCheck(step) == step.hasExpectedStateCheck

RECURSIVE Gcd(_, _)
Gcd(a, b) == IF b = 0 THEN a ELSE Gcd(b, a % b)

\* a fraction in lowest terms, so that equal numbers are equal values
Fraction(n, d) == <<n \div Gcd(n, d), d \div Gcd(n, d)>>

\* the number 0 written to a progress variable
ZeroProgress == Fraction(0, 1)

\* mutant: the fraction is computed after the step counter was advanced
ProgressAfterAdvance(step, proc) == Fraction(step + 1, Len(proc))

\* the progress fraction static_cast<double>(currentStep) / size
Progress(step, proc) == Fraction(step, Len(proc))

\* (*currentProcedure)[currentStep]; the code counts from 0
StepAt(proc, step) == proc[step + 1]

\* mutant: the step counter is incremented twice
NextStepTwice(step) == step + 2

\* currentStep++
NextStep(step) == step + 1

\* mutant: the on-ground test is left out
AirborneNeverTested(ground) == FALSE

\* the aircraft is in the air
Airborne(ground) == ~ground

\* mutant: the request LVAR is left as the simulator set it
ReassertedRequestLeftAlone(req, id) == req

\* the request LVAR re-asserted while a procedure runs
ReassertedRequest(req, id) == id

\* mutant: a skipped step or satisfied condition keeps its delayAfter
ClearedDelayKept(t, step) == t + step.delayAfter

\* the delay left behind by a skipped step or a satisfied condition
ClearedDelay(t, step) == 0

-----------------------------------------------------------------------------
(* History *)

NoEval == [kind |-> "none", step |-> 0, time |-> 0]

NoRun == [state |-> "none", advanced |-> << >>, fired |-> << >>, lastEval |-> NoEval]

\* what this call did: the branch it took, what it found on entry (a run,
\* a request other than the run's, values other than those of a fresh
\* start), the scripts it evaluated in order, whether it wrote the progress
\* outputs
Called(branch, evals, wrote) ==
  /\ op' = "update"
  /\ last' = [branch |-> branch,
              wasActive |-> loadingIsActive,
              reasserted |-> /\ loadingIsActive
                             /\ loadAircraftPresetRequest > 0
                             /\ loadAircraftPresetRequest # currentProcedureID,
              stale |-> \/ currentStep # 0
                        \/ currentLoadingTime # 0
                        \/ currentDelay # 0
                        \/ progressAircraftPreset # ZeroProgress
                        \/ progressAircraftPresetId # 0,
              evaluated |-> evals,
              wrote |-> wrote]

Eval(kind, fvalue) == [kind |-> kind, step |-> currentStep, fvalue |-> fvalue]

-----------------------------------------------------------------------------
(* AircraftPresets::initialize, AircraftPresets::shutdown *)

Init ==
  /\ isInitialized = FALSE
  /\ aircraftIsReady \in BOOLEAN
  /\ loadAircraftPresetRequest = 0
  /\ simOnGround \in BOOLEAN
  /\ progressAircraftPreset = ZeroProgress
  /\ progressAircraftPresetId = 0
  /\ loadingIsActive = FALSE
  /\ currentProcedureID = 0
  /\ currentProcedure = << >>
  /\ currentLoadingTime = 0
  /\ currentDelay = 0
  /\ currentStep = 0
  /\ op = "construct"
  /\ last = [branch |-> "none", wasActive |-> FALSE, reasserted |-> FALSE,
             stale |-> FALSE,
             evaluated |-> << >>, wrote |-> FALSE]
  /\ run = NoRun
  /\ polls = 0

\* no guard: a second call resets the request again and leaves a run as it is
initialize ==
  /\ loadAircraftPresetRequest' = 0
  /\ isInitialized' = TRUE
  /\ op' = "initialize"
  /\ UNCHANGED <<aircraftIsReady, simOnGround, progressAircraftPreset,
                 progressAircraftPresetId, loadingIsActive, currentProcedureID,
                 currentProcedure, currentLoadingTime, currentDelay, currentStep,
                 last, run, polls>>

shutdown ==
  /\ isInitialized' = FALSE
  /\ op' = "shutdown"
  /\ UNCHANGED <<aircraftIsReady, simOnGround, progVars, last, run, polls>>

-----------------------------------------------------------------------------
(* AircraftPresets::update, branch by branch *)

\* update() - not initialized
UpdateNotInitialized ==
  /\ Called("notInitialized", << >>, FALSE)
  /\ UNCHANGED <<progVars, run>>

\* mutant: a call before the aircraft is ready drops the run
UpdateNotReadyDropsRun ==
  /\ loadingIsActive' = FALSE
  /\ Called("notReady", << >>, FALSE)
  /\ UNCHANGED <<loadAircraftPresetRequest, progressAircraftPreset,
                 progressAircraftPresetId, currentProcedureID, currentProcedure,
                 currentLoadingTime, currentDelay, currentStep, run>>

\* the aircraft is not ready yet
UpdateNotReady ==
  /\ Called("notReady", << >>, FALSE)
  /\ UNCHANGED <<progVars, run>>

\* Aircraft must be on the ground to load a preset
AbortAirborne ==
  /\ loadAircraftPresetRequest' = 0
  /\ loadingIsActive' = FALSE
  /\ Called("airborne", << >>, FALSE)
  /\ run' = IF loadingIsActive THEN [run EXCEPT !.state = "aborted"] ELSE run
  /\ UNCHANGED <<progressAircraftPreset, progressAircraftPresetId,
                 currentProcedureID, currentProcedure, currentLoadingTime,
                 currentDelay, currentStep>>

\* mutant: an unknown preset leaves the request standing
RejectNotFoundKeepsRequest ==
  /\ loadingIsActive' = FALSE
  /\ Called("notFound", << >>, FALSE)
  /\ UNCHANGED <<loadAircraftPresetRequest, progressAircraftPreset,
                 progressAircraftPresetId, currentProcedureID, currentProcedure,
                 currentLoadingTime, currentDelay, currentStep, run>>

\* Preset not found
RejectNotFound ==
  /\ loadAircraftPresetRequest' = 0
  /\ loadingIsActive' = FALSE
  /\ Called("notFound", << >>, FALSE)
  /\ UNCHANGED <<progressAircraftPreset, progressAircraftPresetId,
                 currentProcedureID, currentProcedure, currentLoadingTime,
                 currentDelay, currentStep, run>>

\* mutant: a new run keeps the timer of the run before it
StartLoadingKeepsTimer(requestedProcedure) ==
  /\ currentProcedureID' = loadAircraftPresetRequest
  /\ currentProcedure' = requestedProcedure
  /\ currentDelay' = 0
  /\ currentStep' = 0
  /\ loadingIsActive' = TRUE
  /\ progressAircraftPreset' = ZeroProgress
  /\ progressAircraftPresetId' = 0
  /\ Called("start", << >>, TRUE)
  /\ run' = [NoRun EXCEPT !.state = "running"]
  /\ UNCHANGED <<loadAircraftPresetRequest, currentLoadingTime>>

\* initialize new loading process
StartLoading(requestedProcedure) ==
  /\ currentProcedureID' = loadAircraftPresetRequest
  /\ currentProcedure' = requestedProcedure
  /\ currentLoadingTime' = 0
  /\ currentDelay' = 0
  /\ currentStep' = 0
  /\ loadingIsActive' = TRUE
  /\ progressAircraftPreset' = ZeroProgress
  /\ progressAircraftPresetId' = 0
  /\ Called("start", << >>, TRUE)
  /\ run' = [NoRun EXCEPT !.state = "running"]
  /\ UNCHANGED loadAircraftPresetRequest

\* mutant: completion forgets to clear the request
FinishLoadingKeepsRequest ==
  /\ progressAircraftPreset' = ZeroProgress
  /\ progressAircraftPresetId' = 0
  /\ loadAircraftPresetRequest' =
       ReassertedRequest(loadAircraftPresetRequest, currentProcedureID)
  /\ loadingIsActive' = FALSE
  /\ Called("finish", << >>, TRUE)
  /\ run' = [run EXCEPT !.state = "completed"]
  /\ UNCHANGED <<currentProcedureID, currentProcedure, currentLoadingTime,
                 currentDelay, currentStep>>

\* all procedure steps are done and the procedure is finished
FinishLoading ==
  /\ progressAircraftPreset' = ZeroProgress
  /\ progressAircraftPresetId' = 0
  /\ loadAircraftPresetRequest' = 0
  /\ loadingIsActive' = FALSE
  /\ Called("finish", << >>, TRUE)
  /\ run' = [run EXCEPT !.state = "completed"]
  /\ UNCHANGED <<currentProcedureID, currentProcedure, currentLoadingTime,
                 currentDelay, currentStep>>

\* we are in a delay and have to wait
WaitDelay(t) ==
  /\ currentLoadingTime' = t
  /\ loadAircraftPresetRequest' =
       ReassertedRequest(loadAircraftPresetRequest, currentProcedureID)
  /\ Called("wait", << >>, FALSE)
  /\ UNCHANGED <<progressAircraftPreset, progressAircraftPresetId, loadingIsActive,
                 currentProcedureID, currentProcedure, currentDelay, currentStep,
                 run>>

\* the current step is a condition step: check the condition
ConditionStep(t, step, fvalue) ==
  /\ currentLoadingTime' = t
  /\ loadAircraftPresetRequest' =
       ReassertedRequest(loadAircraftPresetRequest, currentProcedureID)
  /\ progressAircraftPreset' = Progress(currentStep, currentProcedure)
  /\ progressAircraftPresetId' = step.id
  /\ IF Satisfied(fvalue)
       THEN /\ currentDelay' = ClearedDelay(t, step)
            /\ currentStep' = NextStep(currentStep)
            /\ Called("conditionMet", << Eval("condition", fvalue) >>, TRUE)
            /\ run' = [run EXCEPT
                 !.advanced = Append(@, currentStep),
                 !.lastEval = [kind |-> "conditionMet", step |-> currentStep, time |-> t]]
       ELSE /\ currentDelay' = NextDelay(t, step)
            /\ currentStep' = currentStep
            /\ Called("conditionNotMet", << Eval("condition", fvalue) >>, TRUE)
            /\ run' = [run EXCEPT
                 !.lastEval = [kind |-> "conditionNotMet", step |-> currentStep, time |-> t]]
  /\ UNCHANGED <<loadingIsActive, currentProcedureID, currentProcedure>>

\* the state is already set: the action is skipped and the delay ignored
SkipStep(t, step, fvalue) ==
  /\ currentLoadingTime' = t
  /\ loadAircraftPresetRequest' =
       ReassertedRequest(loadAircraftPresetRequest, currentProcedureID)
  /\ currentDelay' = ClearedDelay(t, step)
  /\ currentStep' = NextStep(currentStep)
  /\ Called("skip", << Eval("check", fvalue) >>, FALSE)
  /\ run' = [run EXCEPT
       !.advanced = Append(@, currentStep),
       !.lastEval = [kind |-> "skip", step |-> currentStep, time |-> t]]
  /\ UNCHANGED <<progressAircraftPreset, progressAircraftPresetId, loadingIsActive,
                 currentProcedureID, currentProcedure>>

\* execute code to set expected state
ExecuteStep(t, step, fvalue) ==
  /\ currentLoadingTime' = t
  /\ loadAircraftPresetRequest' =
       ReassertedRequest(loadAircraftPresetRequest, currentProcedureID)
  /\ currentDelay' = NextDelay(t, step)
  /\ progressAircraftPreset' = Progress(currentStep, currentProcedure)
  /\ progressAircraftPresetId' = step.id
  /\ currentStep' = NextStep(currentStep)
  /\ Called("execute",
            IF HasCheck(step)
              THEN << Eval("check", fvalue), Eval("action", 0) >>
              ELSE << Eval("action", 0) >>,
            TRUE)
  /\ run' = [run EXCEPT
       !.advanced = Append(@, currentStep),
       !.fired = Append(@, currentStep),
       !.lastEval = [kind |-> "action", step |-> currentStep, time |-> t]]
  /\ UNCHANGED <<loadingIsActive, currentProcedureID, currentProcedure>>

\* mutant: the cancel branch logs and forgets to clear loadingIsActive
CancelLoadingKeepsActive ==
  /\ Called("cancel", << >>, FALSE)
  /\ run' = [run EXCEPT !.state = "cancelled"]
  /\ UNCHANGED progVars

\* request lvar has been set to 0 while we were executing ==> cancel loading
CancelLoading ==
  /\ loadingIsActive' = FALSE
  /\ Called("cancel", << >>, FALSE)
  /\ run' = [run EXCEPT !.state = "cancelled"]
  /\ UNCHANGED <<loadAircraftPresetRequest, progressAircraftPreset,
                 progressAircraftPresetId, currentProcedureID, currentProcedure,
                 currentLoadingTime, currentDelay, currentStep>>

\* mutant: an idle call writes 0 to the progress outputs
UpdateIdleResetsProgress ==
  /\ progressAircraftPreset' = ZeroProgress
  /\ progressAircraftPresetId' = 0
  /\ Called("idle", << >>, TRUE)
  /\ UNCHANGED <<loadAircraftPresetRequest, loadingIsActive, currentProcedureID,
                 currentProcedure, currentLoadingTime, currentDelay, currentStep,
                 run>>

\* no request and nothing running
UpdateIdle ==
  /\ Called("idle", << >>, FALSE)
  /\ UNCHANGED <<progVars, run>>

\* a procedure is running and not finished: timer, delay, one step
RunStep(dtMs, fvalue) ==
  LET t == AdvanceTime(currentLoadingTime, dtMs)
      step == StepAt(currentProcedure, currentStep)
  IN  IF InDelay(t, currentDelay) THEN WaitDelay(t)
      ELSE IF step.isConditional THEN ConditionStep(t, step, fvalue)
      ELSE IF HasCheck(step) /\ Satisfied(fvalue) THEN SkipStep(t, step, fvalue)
      ELSE ExecuteStep(t, step, fvalue)

\* mutant: the timer and the delay gate come before the completion test
updateDoneAfterDelay(dtMs, fvalue) ==
  /\ UNCHANGED <<isInitialized, aircraftIsReady, simOnGround>>
  /\ IF ~isInitialized THEN UpdateNotInitialized
     ELSE IF ~aircraftIsReady THEN UpdateNotReady
     ELSE IF RequestReceived(loadAircraftPresetRequest)
       THEN IF Airborne(simOnGround) THEN AbortAirborne
            ELSE IF ~loadingIsActive
              THEN LET requestedProcedure == getProcedure(loadAircraftPresetRequest)
                   IN  IF ~has_value(requestedProcedure) THEN RejectNotFound
                       ELSE StartLoading(requestedProcedure)
            ELSE IF InDelay(AdvanceTime(currentLoadingTime, dtMs), currentDelay)
              THEN WaitDelay(AdvanceTime(currentLoadingTime, dtMs))
            ELSE IF ProcedureDone(currentStep, currentProcedure) THEN FinishLoading
            ELSE RunStep(dtMs, fvalue)
     ELSE IF loadingIsActive THEN CancelLoading
     ELSE UpdateIdle

update(dtMs, fvalue) ==
  /\ UNCHANGED <<isInitialized, aircraftIsReady, simOnGround>>
  /\ IF ~isInitialized THEN UpdateNotInitialized
     ELSE IF ~aircraftIsReady THEN UpdateNotReady
     ELSE IF RequestReceived(loadAircraftPresetRequest)
       THEN IF Airborne(simOnGround) THEN AbortAirborne
            ELSE IF ~loadingIsActive
              THEN LET requestedProcedure == getProcedure(loadAircraftPresetRequest)
                   IN  IF ~has_value(requestedProcedure) THEN RejectNotFound
                       ELSE StartLoading(requestedProcedure)
            ELSE IF ProcedureDone(currentStep, currentProcedure) THEN FinishLoading
            ELSE RunStep(dtMs, fvalue)
     ELSE IF loadingIsActive THEN CancelLoading
     ELSE UpdateIdle

-----------------------------------------------------------------------------
(* The simulator around the loader *)

SetRequest(v) ==
  /\ v # loadAircraftPresetRequest
  /\ loadAircraftPresetRequest' = v
  /\ op' = "simulator"
  /\ UNCHANGED <<isInitialized, aircraftIsReady, simOnGround, progressAircraftPreset,
                 progressAircraftPresetId, loadingIsActive, currentProcedureID,
                 currentProcedure, currentLoadingTime, currentDelay, currentStep,
                 last, run, polls>>

SetOnGround(b) ==
  /\ b # simOnGround
  /\ simOnGround' = b
  /\ op' = "simulator"
  /\ UNCHANGED <<isInitialized, aircraftIsReady, progVars, last, run, polls>>

SetReady(b) ==
  /\ b # aircraftIsReady
  /\ aircraftIsReady' = b
  /\ op' = "simulator"
  /\ UNCHANGED <<isInitialized, simOnGround, progVars, last, run, polls>>

\* one frame: the time cap keeps the timer of a polling run finite
Tick ==
  \E dtMs \in DtChoices, fvalue \in FValues :
    /\ currentLoadingTime + dtMs <= MaxTime
    /\ update(dtMs, fvalue)
    /\ UNCHANGED polls

Next ==
  \/ Tick
  \/ initialize
  \/ shutdown
  \/ \E v \in RequestValues : SetRequest(v)
  \/ \E b \in BOOLEAN : SetOnGround(b)
  \/ \E b \in BOOLEAN : SetReady(b)

Spec == Init /\ [][Next]_vars

-----------------------------------------------------------------------------
(* The loader driven as the liveness claim assumes: initialised, the aircraft *)
(* ready and on the ground, update called every frame with a delta time of   *)
(* at least 50 ms, and a condition giving at most MaxPolls unsatisfied       *)
(* results in one run. The simulator may set the request to any value, 0 and *)
(* negative values included.                                                 *)

LiveInit ==
  /\ isInitialized = TRUE
  /\ aircraftIsReady = TRUE
  /\ loadAircraftPresetRequest = 0
  /\ simOnGround = TRUE
  /\ progressAircraftPreset = ZeroProgress
  /\ progressAircraftPresetId = 0
  /\ loadingIsActive = FALSE
  /\ currentProcedureID = 0
  /\ currentProcedure = << >>
  /\ currentLoadingTime = 0
  /\ currentDelay = 0
  /\ currentStep = 0
  /\ op = "initialize"
  /\ last = [branch |-> "none", wasActive |-> FALSE, reasserted |-> FALSE,
             stale |-> FALSE,
             evaluated |-> << >>, wrote |-> FALSE]
  /\ run = NoRun
  /\ polls = 0

LiveTick ==
  \E dtMs \in DtChoices \ {0}, fvalue \in FValues :
    /\ update(dtMs, fvalue)
    /\ last'.branch = "conditionNotMet" => polls < MaxPolls
    /\ polls' = CASE last'.branch = "start" -> 0
                  [] last'.branch = "conditionNotMet" -> polls + 1
                  [] OTHER -> polls

LiveNext ==
  \/ LiveTick
  \/ \E v \in RequestValues : SetRequest(v)

LiveSpec == LiveInit /\ [][LiveNext]_vars /\ WF_vars(LiveTick)

-----------------------------------------------------------------------------
(* The loader driven as the timing scenario describes: initialised, the      *)
(* aircraft ready and on the ground, every frame 50 ms long, the request set *)
(* only while no run is active and then held.                                *)

ScenarioDts == {50}

ScenarioInit == LiveInit

ScenarioTick ==
  \E dtMs \in ScenarioDts, fvalue \in FValues :
    /\ currentLoadingTime + dtMs <= MaxTime
    /\ update(dtMs, fvalue)
    /\ UNCHANGED polls

ScenarioRequest(v) ==
  /\ ~loadingIsActive
  /\ loadAircraftPresetRequest = 0
  /\ v > 0
  /\ SetRequest(v)

ScenarioNext ==
  \/ ScenarioTick
  \/ \E v \in RequestValues : ScenarioRequest(v)

ScenarioSpec == ScenarioInit /\ [][ScenarioNext]_vars

-----------------------------------------------------------------------------
(* Properties *)

\* this step is a call of update that got past both gates
Processed == op' = "update" /\ isInitialized /\ aircraftIsReady

Known(id) == id \in DOMAIN Procedures

NoDuplicates(seq) == \A i, j \in 1..Len(seq) : seq[i] = seq[j] => i = j

\* C1: a processed update that finds a request > 0 while the aircraft is not
\* on the ground, with or without a run, leaves the request 0 and
\* loadingIsActive false, does not advance currentStep and evaluates no script.
C1_AirborneRejects ==
  [][ (Processed /\ loadAircraftPresetRequest > 0 /\ ~simOnGround)
        => /\ loadAircraftPresetRequest' = 0
           /\ ~loadingIsActive'
           /\ currentStep' = currentStep
           /\ last'.evaluated = << >> ]_vars

\* C1 happens: a run that had executed a step was aborted in the air
C1_Witness ==
  /\ op = "update"
  /\ last.branch = "airborne"
  /\ last.wasActive
  /\ run.fired # << >>
  /\ loadAircraftPresetRequest = 0

\* C2: a processed update that finds the request 0 while a run is active
\* clears loadingIsActive in that call, leaves currentStep and the steps
\* already executed as they are and evaluates no script; and once a run is
\* cancelled no update evaluates a script or advances a step for it.
C2_CancelStopsRun ==
  [][ /\ (Processed /\ loadAircraftPresetRequest = 0 /\ loadingIsActive)
         => /\ ~loadingIsActive'
            /\ currentStep' = currentStep
            /\ last'.evaluated = << >>
            /\ run'.state = "cancelled"
            /\ run'.fired = run.fired
      /\ (run.state = "cancelled" /\ run'.state = "cancelled")
         => /\ op' = "update" => last'.evaluated = << >>
            /\ currentStep' = currentStep
            /\ run'.fired = run.fired
            /\ run'.advanced = run.advanced ]_vars

\* C2 happens: a run was cancelled between two of its steps
C2_Witness ==
  /\ op = "update"
  /\ last.branch = "cancel"
  /\ run.fired # << >>
  /\ currentStep < Len(currentProcedure)
  /\ ~loadingIsActive

\* C3: a processed update that finds, with no run active and on the ground,
\* a request > 0 that names no procedure leaves the request 0 and
\* loadingIsActive false and evaluates no script; and a run is never active
\* for an id the repository does not hold.
C3_UnknownPresetRejected ==
  /\ [](loadingIsActive => /\ Known(currentProcedureID)
                           /\ currentProcedure = Procedures[currentProcedureID])
  /\ [][ (/\ Processed
          /\ ~loadingIsActive
          /\ simOnGround
          /\ loadAircraftPresetRequest > 0
          /\ ~Known(loadAircraftPresetRequest))
           => /\ loadAircraftPresetRequest' = 0
              /\ ~loadingIsActive'
              /\ last'.evaluated = << >> ]_vars

\* C3 happens: an unknown preset was requested and rejected
C3_Witness ==
  /\ op = "update"
  /\ last.branch = "notFound"
  /\ loadAircraftPresetRequest = 0
  /\ ~loadingIsActive

\* C4: a run that completed advanced currentStep at the indices 0 .. size-1,
\* each once and in ascending order, executed no action script twice, and the
\* completing call leaves loadingIsActive false and the request 0.
C4_CompletedRunVisitsEveryStepOnce ==
  /\ run.state \in {"running", "completed"} =>
       /\ NoDuplicates(run.fired)
       /\ \A i \in 1..Len(run.fired) :
            /\ run.fired[i] \in 0..(Len(currentProcedure) - 1)
            /\ ~StepAt(currentProcedure, run.fired[i]).isConditional
  /\ run.state = "completed" =>
       run.advanced = [i \in 1..Len(currentProcedure) |-> i - 1]
  /\ (op = "update" /\ last.branch = "finish") =>
       /\ run.state = "completed"
       /\ ~loadingIsActive
       /\ loadAircraftPresetRequest = 0

\* C4 happens: procedure 3 completed through a satisfied condition, a skipped
\* step and an executed step
C4_Witness ==
  /\ op = "update"
  /\ last.branch = "finish"
  /\ run.state = "completed"
  /\ currentProcedureID = 3
  /\ run.fired = << 2 >>
  /\ run.advanced = << 0, 1, 2 >>

\* the run has completed: loadingIsActive is false and the request is 0
RunCompleted ==
  /\ ~loadingIsActive
  /\ loadAircraftPresetRequest = 0
  /\ run.state = "completed"

\* C5 as stated: under LiveSpec (update keeps being called with the aircraft
\* ready and on the ground, every delta time > 0, every condition eventually
\* satisfied) a run that has started eventually completes, unless the request
\* is set to 0 from outside while the run is active.
C5_Original ==
  loadingIsActive ~> (\/ RunCompleted
                      \/ loadingIsActive /\ loadAircraftPresetRequest = 0)

\* C5: under LiveSpec a run that has started eventually completes
\* (loadingIsActive is false and the request is 0), unless the request is set
\* from outside to a value that is not > 0, 0 or negative, while the run is
\* active. A run that update keeps active always has the request at
\* currentProcedureID after the call, so an active run with a request <= 0 is
\* exactly a run whose request was set so from outside.
C5_RunEventuallyCompletes ==
  loadingIsActive ~> (\/ RunCompleted
                      \/ loadingIsActive /\ loadAircraftPresetRequest <= 0)

\* C5 happens: a run under LiveSpec completed after its condition had been
\* polled in vain as often as the bound allows
C5_Witness ==
  /\ run.state = "completed"
  /\ polls = MaxPolls
  /\ ~loadingIsActive
  /\ loadAircraftPresetRequest = 0
  /\ currentStep = Len(currentProcedure)

\* the delay a step evaluated at lastEval asks for
DelayEndOf(e) == e.time + StepAt(currentProcedure, e.step).delayAfter

\* this step is a call of update that works on the active run
RunningCall ==
  /\ Processed
  /\ loadingIsActive
  /\ simOnGround
  /\ loadAircraftPresetRequest > 0

\* C6: when the expected-state check of an action step is evaluated and its
\* result is not approximately zero, the same call increments currentStep by
\* 1, evaluates no action script, writes no progress output and sets
\* currentDelay to 0; the next call with a delta time > 0 then handles the
\* following step without waiting.
C6_SatisfiedCheckSkipsStep ==
  [][ /\ (/\ op' = "update"
          /\ last'.evaluated # << >>
          /\ last'.evaluated[1].kind = "check"
          /\ ~almostEqual(0, last'.evaluated[1].fvalue))
         => /\ currentStep' = currentStep + 1
            /\ last'.evaluated[1].step = currentStep
            /\ HasCheck(StepAt(currentProcedure, currentStep))
            /\ ~StepAt(currentProcedure, currentStep).isConditional
            /\ Len(last'.evaluated) = 1
            /\ run'.fired = run.fired
            /\ ~last'.wrote
            /\ progressAircraftPreset' = progressAircraftPreset
            /\ progressAircraftPresetId' = progressAircraftPresetId
            /\ currentDelay' = 0
      /\ (/\ last.branch = "skip"
          /\ RunningCall
          /\ currentStep < Len(currentProcedure)
          /\ currentLoadingTime' > currentLoadingTime)
         => /\ last'.evaluated # << >>
            /\ last'.evaluated[1].step = currentStep ]_vars

\* C6 happens: step 1 of procedure 3 was skipped; the outputs still show the
\* condition step before it
C6_Witness ==
  /\ op = "update"
  /\ last.branch = "skip"
  /\ last.evaluated = << [kind |-> "check", step |-> 1, fvalue |-> 4] >>
  /\ currentStep = 2
  /\ currentDelay = 0
  /\ run.fired = << >>
  /\ progressAircraftPresetId = 31

\* C7: after a condition evaluated to approximately zero at timer value t,
\* every call that leaves the timer at or below t + delayAfter evaluates no
\* script and keeps currentStep; while the run is active currentStep leaves a
\* conditional step only in a call that evaluates the condition to a value
\* that is not approximately zero.
C7_UnsatisfiedConditionPolls ==
  /\ []((loadingIsActive /\ run.lastEval.kind = "conditionNotMet")
          => /\ currentStep = run.lastEval.step
             /\ StepAt(currentProcedure, currentStep).isConditional)
  /\ [][ /\ (/\ op' = "update"
             /\ loadingIsActive
             /\ run.lastEval.kind = "conditionNotMet"
             /\ currentLoadingTime' <= DelayEndOf(run.lastEval))
            => /\ last'.evaluated = << >>
               /\ currentStep' = currentStep
         /\ (/\ loadingIsActive
             /\ currentStep < Len(currentProcedure)
             /\ StepAt(currentProcedure, currentStep).isConditional
             /\ currentStep' # currentStep)
            => /\ op' = "update"
               /\ currentStep' = currentStep + 1
               /\ Len(last'.evaluated) = 1
               /\ last'.evaluated[1].kind = "condition"
               /\ last'.evaluated[1].step = currentStep
               /\ ~almostEqual(0, last'.evaluated[1].fvalue) ]_vars

\* C7 happens: a call found the timer exactly at the end of the polling
\* interval of an unsatisfied condition and waited
C7_Witness ==
  /\ op = "update"
  /\ last.branch = "wait"
  /\ loadingIsActive
  /\ run.lastEval.kind = "conditionNotMet"
  /\ currentLoadingTime = DelayEndOf(run.lastEval)
  /\ currentLoadingTime > run.lastEval.time
  /\ currentStep = run.lastEval.step

\* C8: after the action script of step k was executed at timer value t, no
\* call that leaves the timer at or below t + delayAfter(k) evaluates a
\* script; a call evaluates a script of a step within the delayAfter of its
\* predecessor only if the predecessor was skipped or was a satisfied
\* condition.
C8_DelayAfterExecutedStep ==
  [][ /\ (/\ op' = "update"
          /\ loadingIsActive
          /\ run.lastEval.kind = "action"
          /\ currentLoadingTime' <= DelayEndOf(run.lastEval))
         => last'.evaluated = << >>
      /\ (/\ op' = "update"
          /\ loadingIsActive
          /\ last'.evaluated # << >>
          /\ run.lastEval.kind # "none"
          /\ run.lastEval.step + 1 = last'.evaluated[1].step
          /\ currentLoadingTime' <= DelayEndOf(run.lastEval))
         => run.lastEval.kind \in {"skip", "conditionMet"} ]_vars

\* C8 happens: a call found the timer exactly at the end of the delay of the
\* executed step 1 of procedure 2 (200 ms) and waited
C8_Witness ==
  /\ op = "update"
  /\ last.branch = "wait"
  /\ loadingIsActive
  /\ currentProcedureID = 2
  /\ run.lastEval.kind = "action"
  /\ run.lastEval.step = 1
  /\ currentLoadingTime = run.lastEval.time + 200
  /\ currentStep = 2

\* C9: while a run is active 0 <= currentStep <= size; a step that leaves the
\* run active leaves currentStep as it is or adds 1 to it.
C9_StepCounterBounded ==
  /\ [](loadingIsActive =>
          /\ 0 <= currentStep
          /\ currentStep <= Len(currentProcedure))
  /\ [][ (loadingIsActive /\ loadingIsActive')
           => currentStep' \in {currentStep, currentStep + 1} ]_vars

\* C9 happens: an active run has advanced past its last step
C9_Witness ==
  /\ op = "update"
  /\ loadingIsActive
  /\ Len(currentProcedure) = 3
  /\ currentStep = Len(currentProcedure)
  /\ last.branch = "execute"

\* the call of C10: a run is active on the ground and the request was changed
\* to another value > 0
ChangedRequestCall ==
  /\ RunningCall
  /\ loadAircraftPresetRequest # currentProcedureID

\* C10 as stated: the call rewrites the request to currentProcedureID and
\* continues the same procedure at the same currentStep.
C10_Original ==
  [][ ChangedRequestCall
        => /\ loadAircraftPresetRequest' = currentProcedureID
           /\ loadingIsActive'
           /\ currentProcedureID' = currentProcedureID
           /\ currentProcedure' = currentProcedure
           /\ currentStep' \in {currentStep, currentStep + 1} ]_vars

\* C10 amended: the call rewrites the request to currentProcedureID and
\* continues the same procedure at the same currentStep, unless currentStep
\* has reached size: then the call completes the run and leaves the request
\* 0.  The procedure and its id never change during a run, and a run ends
\* without completing only in a call that finds the request <= 0 or the
\* aircraft in the air.
C10_RequestReasserted ==
  [][ /\ ChangedRequestCall =>
           IF currentStep >= Len(currentProcedure)
             THEN /\ loadAircraftPresetRequest' = 0
                  /\ ~loadingIsActive'
                  /\ run'.state = "completed"
                  /\ currentStep' = currentStep
             ELSE /\ loadAircraftPresetRequest' = currentProcedureID
                  /\ loadingIsActive'
                  /\ run'.state = "running"
                  /\ currentStep' \in {currentStep, currentStep + 1}
      /\ (loadingIsActive /\ loadingIsActive')
           => /\ currentProcedureID' = currentProcedureID
              /\ currentProcedure' = currentProcedure
      /\ (loadingIsActive /\ ~loadingIsActive' /\ run'.state # "completed")
           => /\ Processed
              /\ loadAircraftPresetRequest <= 0 \/ ~simOnGround ]_vars

\* C10 happens: the request was changed to the id of another procedure
\* during a run, and the call executed the next step of the running one
C10_Witness ==
  /\ op = "update"
  /\ last.reasserted
  /\ last.branch = "execute"
  /\ loadingIsActive
  /\ currentProcedureID = 2
  /\ loadAircraftPresetRequest = 2
  /\ currentStep = 2

\* the request and the run state as C11 states them to be after a call
ConsistentAsStated ==
  /\ loadingIsActive <=> (/\ loadAircraftPresetRequest = currentProcedureID
                          /\ loadAircraftPresetRequest > 0)
  /\ ~loadingIsActive => loadAircraftPresetRequest = 0

\* C11 as stated: after every processed update loadingIsActive is true
\* exactly if the request equals currentProcedureID and is > 0, and the
\* request is 0 whenever loadingIsActive is false.
C11_Original == [][ Processed => ConsistentAsStated' ]_vars

\* C11 amended: after every processed update loadingIsActive is true exactly
\* if the request equals currentProcedureID and is > 0, and whenever
\* loadingIsActive is false the request is not > 0: it is 0, or the negative
\* value the call found, which update never rewrites.
C11_RequestMatchesRunState ==
  [][ Processed =>
        /\ loadingIsActive' <=> (/\ loadAircraftPresetRequest' = currentProcedureID'
                                 /\ loadAircraftPresetRequest' > 0)
        /\ ~loadingIsActive' =>
             \/ loadAircraftPresetRequest' = 0
             \/ /\ loadAircraftPresetRequest' < 0
                /\ loadAircraftPresetRequest' = loadAircraftPresetRequest ]_vars

\* C11 happens: a call re-asserted a changed request during a run, and
\* request and run state agree
C11_Witness ==
  /\ op = "update"
  /\ last.reasserted
  /\ last.branch = "wait"
  /\ loadingIsActive
  /\ loadAircraftPresetRequest = currentProcedureID
  /\ currentStep > 0

\* C12: when a processed update ends an active run abnormally (request 0, or
\* a request > 0 in the air) both progress outputs are 0 afterwards, so that
\* both are 0 after every processed update that leaves loadingIsActive false
\* (stated for the calls that find a request >= 0).
C12_ProgressResetOnAbnormalEnd ==
  [][ /\ (/\ Processed
          /\ loadingIsActive
          /\ \/ loadAircraftPresetRequest = 0
             \/ loadAircraftPresetRequest > 0 /\ ~simOnGround)
         => /\ progressAircraftPreset' = ZeroProgress
            /\ progressAircraftPresetId' = 0
      /\ (Processed /\ loadAircraftPresetRequest >= 0 /\ ~loadingIsActive')
         => /\ progressAircraftPreset' = ZeroProgress
            /\ progressAircraftPresetId' = 0 ]_vars

\* C13 as stated: every update call evaluates at most one script.
C13_Original == Len(last.evaluated) <= 1

\* C13 amended: every update call evaluates at most one script, except a
\* call that handles an action step whose non-empty expected-state check
\* evaluates to approximately zero: that call evaluates the check and then
\* the action script of the same step, two scripts and never more.
C13_AtMostCheckAndAction ==
  /\ Len(last.evaluated) <= 2
  /\ Len(last.evaluated) = 2 =>
       /\ last.branch = "execute"
       /\ last.evaluated[1].kind = "check"
       /\ almostEqual(0, last.evaluated[1].fvalue)
       /\ last.evaluated[2].kind = "action"
       /\ last.evaluated[2].step = last.evaluated[1].step
       /\ HasCheck(StepAt(currentProcedure, last.evaluated[1].step))
       /\ ~StepAt(currentProcedure, last.evaluated[1].step).isConditional
  /\ last.branch \in {"conditionMet", "conditionNotMet", "skip"} =>
       Len(last.evaluated) = 1
  /\ last.branch \notin {"conditionMet", "conditionNotMet", "skip", "execute"} =>
       last.evaluated = << >>

\* C13 happens: a call evaluated the expected-state check of step 1 of
\* procedure 3, found it not satisfied and executed the action
C13_Witness ==
  /\ op = "update"
  /\ last.branch = "execute"
  /\ Len(last.evaluated) = 2
  /\ last.evaluated[1] = [kind |-> "check", step |-> 1, fvalue |-> 1]
  /\ last.evaluated[2].kind = "action"
  /\ currentStep = 2
  /\ run.fired = << 1 >>

\* a run of procedure 2 (three actions, delays 100, 200, 0, no checks)
ScenarioRun == loadingIsActive /\ currentProcedureID = 2

\* C14 as stated: under ScenarioSpec the loader is on step 0 up to 100 ms of
\* accumulated time, on step 1 with the third 50 ms, and reaches currentStep
\* = 3 only after the delays of steps 0 and 1.
C14_Original ==
  ScenarioRun =>
    /\ currentLoadingTime <= 100 => currentStep = 0
    /\ currentLoadingTime = 150 => currentStep = 1
    /\ currentStep = 3 => currentLoadingTime > 100 + 200

\* C14 amended: under ScenarioSpec step 0 fires with the first 50 ms (no
\* delay precedes the first step), so currentStep is 0 only right after the
\* starting call and 1 from 50 ms on; step 1 fires at 200 ms, the first
\* timer value above 50 + 100; step 2 fires at 450 ms, the first above
\* 200 + 200; currentStep = 3 is reached at 450 ms and not before.
C14_ScenarioTimeline ==
  ScenarioRun =>
    /\ currentLoadingTime \in {0, 50, 100, 150, 200, 250, 300, 350, 400, 450}
    /\ currentStep = CASE currentLoadingTime = 0 -> 0
                       [] currentLoadingTime \in {50, 100, 150} -> 1
                       [] currentLoadingTime \in {200, 250, 300, 350, 400} -> 2
                       [] OTHER -> 3
    /\ run.fired = SubSeq(<< 0, 1, 2 >>, 1, currentStep)
    /\ run.lastEval.kind = "action" =>
         run.lastEval.time = CASE currentStep = 1 -> 50
                               [] currentStep = 2 -> 200
                               [] OTHER -> 450

\* C14 happens: the scenario's run has executed its three steps, the last
\* one at 450 ms
C14_Witness ==
  /\ ScenarioRun
  /\ op = "update"
  /\ last.branch = "execute"
  /\ currentStep = 3
  /\ currentLoadingTime = 450
  /\ run.fired = << 0, 1, 2 >>

\* C15: for a registered procedure without steps the processed update that
\* finds the request starts the run, and the next processed update that finds
\* the request still > 0 on the ground completes it: loadingIsActive false,
\* the request 0, both progress outputs 0, no script evaluated, no step
\* indexed (currentStep stays 0 and no step of the run is recorded).
C15_EmptyProcedureCompletesNextTick ==
  [][ /\ (/\ Processed
          /\ ~loadingIsActive
          /\ simOnGround
          /\ loadAircraftPresetRequest > 0
          /\ Known(loadAircraftPresetRequest)
          /\ Len(Procedures[loadAircraftPresetRequest]) = 0)
         => /\ loadingIsActive'
            /\ currentProcedure' = << >>
            /\ currentStep' = 0
            /\ loadAircraftPresetRequest' = loadAircraftPresetRequest
      /\ (/\ RunningCall
          /\ Len(currentProcedure) = 0)
         => /\ ~loadingIsActive'
            /\ loadAircraftPresetRequest' = 0
            /\ progressAircraftPreset' = ZeroProgress
            /\ progressAircraftPresetId' = 0
            /\ last'.evaluated = << >>
            /\ last'.branch = "finish"
            /\ currentStep' = 0
            /\ currentLoadingTime' = 0
            /\ run'.advanced = << >>
            /\ run'.fired = << >>
            /\ run'.state = "completed" ]_vars

\* C15 happens: the empty procedure was started and completed by the call
\* after the start
C15_Witness ==
  /\ op = "update"
  /\ last.branch = "finish"
  /\ currentProcedureID = 1
  /\ currentProcedure = << >>
  /\ run.state = "completed"
  /\ run.advanced = << >>
  /\ ~loadingIsActive
  /\ loadAircraftPresetRequest = 0
  /\ currentLoadingTime = 0

\* C16: an update that finds the request 0 and no run active changes
\* nothing: the request, loadingIsActive, currentStep, currentLoadingTime,
\* currentDelay, currentProcedureID, the bound procedure and both progress
\* outputs keep their values and no script is evaluated, whatever the
\* on-ground flag is and however often it is called.
C16_IdleUpdateChangesNothing ==
  [][ (op' = "update" /\ loadAircraftPresetRequest = 0 /\ ~loadingIsActive)
        => /\ UNCHANGED progVars
           /\ UNCHANGED <<isInitialized, aircraftIsReady, simOnGround, run>>
           /\ last'.evaluated = << >>
           /\ ~last'.wrote ]_vars

\* C16 happens: an idle call in the air, with the values a cancelled run
\* left behind still in place
C16_Witness ==
  /\ op = "update"
  /\ last.branch = "idle"
  /\ ~simOnGround
  /\ run.state = "cancelled"
  /\ currentStep = 2
  /\ currentLoadingTime > 0
  /\ progressAircraftPresetId # 0
  /\ progressAircraftPreset # ZeroProgress

\* C17: while the loader is not initialised or the aircraft is not ready an
\* update changes nothing, whatever the request and the on-ground flag are
\* and whether or not a run is active, and evaluates no script; the first
\* processed update after such a call that finds the run's request on the
\* ground continues the run at the currentStep it had.
C17_GatedUpdateChangesNothing ==
  [][ /\ (op' = "update" /\ (~isInitialized \/ ~aircraftIsReady))
         => /\ UNCHANGED progVars
            /\ UNCHANGED <<isInitialized, aircraftIsReady, simOnGround, run>>
            /\ last'.evaluated = << >>
            /\ ~last'.wrote
            /\ last'.branch \in {"notInitialized", "notReady"}
      /\ (/\ last.branch \in {"notInitialized", "notReady"}
          /\ last.wasActive
          /\ RunningCall
          /\ currentStep < Len(currentProcedure))
         => /\ loadingIsActive'
            /\ run'.state = "running"
            /\ currentProcedureID' = currentProcedureID
            /\ loadAircraftPresetRequest' = currentProcedureID
            /\ currentStep' \in {currentStep, currentStep + 1}
            /\ last'.evaluated # << >> => last'.evaluated[1].step = currentStep ]_vars

\* C17 happens: a call before the aircraft was ready, with the request
\* cleared and the aircraft in the air, left a run that had executed step 0
\* active at step 1
C17_Witness ==
  /\ op = "update"
  /\ last.branch = "notReady"
  /\ last.wasActive
  /\ loadingIsActive
  /\ ~aircraftIsReady
  /\ ~simOnGround
  /\ loadAircraftPresetRequest = 0
  /\ currentStep = 1
  /\ run.fired = << 0 >>

\* C18: the processed update that starts a run (no run active, the request
\* names a registered procedure, on the ground) sets currentProcedureID to
\* the request, binds its procedure, sets currentStep, currentLoadingTime and
\* currentDelay to 0, loadingIsActive to true and both progress outputs to 0,
\* whatever an earlier run left behind; it evaluates no script and adds no
\* time.
C18_StartResetsRunState ==
  [][ (/\ Processed
       /\ ~loadingIsActive
       /\ simOnGround
       /\ loadAircraftPresetRequest > 0
       /\ Known(loadAircraftPresetRequest))
        => /\ currentProcedureID' = loadAircraftPresetRequest
           /\ currentProcedure' = Procedures[loadAircraftPresetRequest]
           /\ currentStep' = 0
           /\ currentLoadingTime' = 0
           /\ currentDelay' = 0
           /\ loadingIsActive'
           /\ progressAircraftPreset' = ZeroProgress
           /\ progressAircraftPresetId' = 0
           /\ loadAircraftPresetRequest' = loadAircraftPresetRequest
           /\ last'.evaluated = << >>
           /\ run' = [NoRun EXCEPT !.state = "running"] ]_vars

\* C18 happens: a run of procedure 2 was started over the values an earlier
\* run of another procedure had left behind
C18_Witness ==
  /\ op = "update"
  /\ last.branch = "start"
  /\ last.stale
  /\ ~last.wasActive
  /\ loadingIsActive
  /\ currentProcedureID = 2
  /\ currentStep = 0
  /\ currentLoadingTime = 0

\* C19: the progress output always holds a fraction in [0,1) with a divisor
\* > 0; an update that writes the outputs writes 0 and 0 (start, finish) or
\* currentStep / size and the id of the step at currentStep, both taken
\* before currentStep is advanced and with 0 <= currentStep < size; an update
\* that skips a step, or writes nothing, leaves both as they are.
C19_ProgressOutputs ==
  /\ [](/\ progressAircraftPreset[2] > 0
        /\ 0 <= progressAircraftPreset[1]
        /\ progressAircraftPreset[1] < progressAircraftPreset[2])
  /\ [][ op' = "update" =>
           /\ last'.branch = "skip" => ~last'.wrote
           /\ IF last'.wrote
                THEN \/ /\ last'.branch \in {"start", "finish"}
                        /\ progressAircraftPreset' = ZeroProgress
                        /\ progressAircraftPresetId' = 0
                     \/ /\ last'.branch \in {"conditionMet", "conditionNotMet",
                                             "execute"}
                        /\ 0 <= currentStep
                        /\ currentStep < Len(currentProcedure)
                        /\ progressAircraftPreset' =
                             Fraction(currentStep, Len(currentProcedure))
                        /\ progressAircraftPresetId' =
                             StepAt(currentProcedure, currentStep).id
                        /\ currentStep' \in {currentStep, currentStep + 1}
                ELSE /\ progressAircraftPreset' = progressAircraftPreset
                     /\ progressAircraftPresetId' = progressAircraftPresetId ]_vars

\* C19 happens: the last step of a three-step procedure was executed and
\* the outputs show 2/3 and its id
C19_Witness ==
  /\ op = "update"
  /\ last.branch = "execute"
  /\ last.wrote
  /\ progressAircraftPreset = << 2, 3 >>
  /\ progressAircraftPresetId = 33
  /\ currentStep = 3

\* C20: a processed update that finds the run's request on the ground and
\* currentStep at size completes the run (loadingIsActive false, request 0)
\* whether or not the delay of the last step has passed, leaves
\* currentLoadingTime as it is and evaluates no script.
C20_CompletionBeforeDelay ==
  [][ (RunningCall /\ currentStep >= Len(currentProcedure))
        => /\ ~loadingIsActive'
           /\ loadAircraftPresetRequest' = 0
           /\ run'.state = "completed"
           /\ last'.branch = "finish"
           /\ currentLoadingTime' = currentLoadingTime
           /\ currentDelay' = currentDelay
           /\ currentStep' = currentStep
           /\ last'.evaluated = << >> ]_vars

\* C20 happens: a run was completed while the delay of its last executed
\* step had not passed
C20_Witness ==
  /\ op = "update"
  /\ last.branch = "finish"
  /\ run.state = "completed"
  /\ run.lastEval.kind = "action"
  /\ run.lastEval.step = 2
  /\ currentLoadingTime = run.lastEval.time
  /\ currentLoadingTime < currentDelay
  /\ ~loadingIsActive

=============================================================================
